---- MODULE Spec2Model ----
(***************************************************************************)
(* A model of CollectionTrace (src/src/collection_trace/                   *)
(* collection_trace.rs): the link array, the time array, the key map and   *)
(* the scratch buffer, with install_differences and set_collection as the  *)
(* mutating operations and get_range / trace / get_difference /            *)
(* get_collection / get_collection_iterator / interesting_times as reads.  *)
(*                                                                         *)
(* Vectors are TLA+ sequences; the code's 0-based index i is element i+1.  *)
(* A read that panics in Rust (index out of bounds, slice start > end)     *)
(* is a result record with ok = FALSE.                                     *)
(***************************************************************************)
EXTENDS Integers, Sequences, FiniteSets, TLC

\* ------------------------------------------------------------------ bounds
MaxCalls == 2
MaxLen == 2
MaxDeepCalls == 4
DeepSetLen == 1

Keys == {"a", "b"}
Values == {1, 2}
Weights == {-1, 1}
\* logical times: points of N x N, ordered pointwise
Times == {<<1, 0>>, <<0, 1>>, <<1, 1>>}
DeepValues == {1}
DeepWeights == {1}
DeepTimes == {<<1, 0>>, <<1, 1>>}
IndexTimes == {<<0, 0>>, <<1, 0>>, <<0, 1>>, <<1, 1>>}

\* ------------------------------------------------------- the time lattice
Leq(s, t) == s[1] <= t[1] /\ s[2] <= t[2]

Max(x, y) == IF x >= y THEN x ELSE y

least_upper_bound(s, t) == <<Max(s[1], t[1]), Max(s[2], t[2])>>

\* ----------------------------------------------------------------- Offset
\* !0u32 of the code; TLC's integers are 32-bit signed, so the all-ones word
\* is the 31-bit one (no modelled link array comes near either)
AllOnes == 2147483647

OffsetNew(offset) == AllOnes - offset

OffsetVal(dataz) == AllOnes - dataz

\* Option<Offset>::None
None == -1

\* -------------------------------------------------------------- the state
VARIABLES links, times, keys, temp, panicked, call, ncalls

vars == <<links, times, keys, temp, panicked, call, ncalls>>

\* 0-based access to a vector
At(vec, i) == vec[i + 1]

\* vec[lower..upper] of Rust, for lower <= upper <= len
Slice(vec, lower, upper) == [i \in 1..(upper - lower) |-> vec[lower + i]]

\* ------------------------------------------------------------------ merge
Retain(slices) == SelectSeq(slices, LAMBDA x : Len(x) > 0)

RECURSIVE MinHeadFrom(_, _, _)
MinHeadFrom(slices, i, value) ==
    IF i > Len(slices) THEN value
    ELSE MinHeadFrom(slices, i + 1,
                     IF slices[i][1][1] < value THEN slices[i][1][1] ELSE value)

\* the value as it would be if the loop over the other slices were left out
FirstHead(slices) == slices[1][1][1]

MinHead(slices) == MinHeadFrom(slices, 2, slices[1][1][1])

RECURSIVE CountHeads(_, _, _)
CountHeads(slices, i, value) ==
    IF i > Len(slices) THEN 0
    ELSE (IF slices[i][1][1] = value THEN slices[i][1][2] ELSE 0)
         + CountHeads(slices, i + 1, value)

Advance(slices, value) ==
    [i \in 1..Len(slices) |->
        IF slices[i][1][1] = value THEN Tail(slices[i]) ELSE slices[i]]

RECURSIVE MergeLoop(_, _)
MergeLoop(slices, target) ==
    IF Len(slices) > 1
    THEN LET value == MinHead(slices)
             count == CountHeads(slices, 1, value)
         IN  MergeLoop(Retain(Advance(slices, value)),
                       IF count # 0 THEN Append(target, <<value, count>>)
                                    ELSE target)
    ELSE IF Len(slices) = 1 THEN target \o slices[1]
    ELSE target

\* merge as it would be if it wrote over target instead of appending to it
merge_overwriting(slices, target) == MergeLoop(Retain(slices), <<>>)

merge(slices, target) == MergeLoop(Retain(slices), target)

\* ------------------------------------------------------------------ reads
\* The store a method is called on, as a record: links hold
\* (time_index, value_lower, next); times hold (time, values).
self == [links |-> links, times |-> times, keys |-> keys, temp |-> temp]

PanicSlice == [ok |-> FALSE, val |-> <<>>]

get_range(s, position) ==
    LET index == At(s.links, position)[1]
        lower == At(s.links, position)[2]
        sameNext == (position + 1) < Len(s.links)
                    /\ index = At(s.links, position + 1)[1]
    IN  IF ~sameNext /\ index >= Len(s.times)
        THEN PanicSlice
        ELSE LET upper == IF sameNext THEN At(s.links, position + 1)[2]
                          ELSE Len(At(s.times, index)[2])
             IN  IF index >= Len(s.times)
                    \/ lower > upper
                    \/ upper > Len(At(s.times, index)[2])
                 THEN PanicSlice
                 ELSE [ok |-> TRUE,
                       val |-> Slice(At(s.times, index)[2], lower, upper)]

\* one step of TraceIterator::next at a link position
TraceItem(s, position) ==
    LET time_index == At(s.links, position)[1]
        range == get_range(s, position)
    IN  IF time_index >= Len(s.times)
        THEN [ok |-> FALSE, time |-> <<0, 0>>, slice |-> <<>>]
        ELSE [ok |-> range.ok,
              time |-> At(s.times, time_index)[1],
              slice |-> range.val]

\* the items the iterator yields from next0 on; a panicking item ends the walk
RECURSIVE TraceFrom(_, _)
TraceFrom(s, next0) ==
    IF next0 = None THEN <<>>
    ELSE LET position == OffsetVal(next0)
             item == TraceItem(s, position)
         IN  IF ~item.ok THEN <<item>>
             ELSE <<item>> \o TraceFrom(s, At(s.links, position)[3])

get_ref(km, key) == km[key]

trace(s, key) == TraceFrom(s, get_ref(s.keys, key))

TraceOk(s, key) ==
    LET items == trace(s, key) IN \A i \in 1..Len(items) : items[i].ok

\* filter(|x| x.0 == time).map(|x| x.1).next().unwrap_or(&[]): lazy, so the
\* walk ends at the first entry for time
RECURSIVE FirstAt(_, _, _)
FirstAt(items, i, time) ==
    IF i > Len(items) THEN [ok |-> TRUE, val |-> <<>>]
    ELSE IF ~items[i].ok THEN PanicSlice
    ELSE IF items[i].time = time THEN [ok |-> TRUE, val |-> items[i].slice]
    ELSE FirstAt(items, i + 1, time)

get_difference(s, key, time) == FirstAt(trace(s, key), 1, time)

\* the slices of the entries with x.0 <= time, in chain order
SlicesUpTo(items, time) ==
    LET kept == SelectSeq(items, LAMBDA x : Leq(x.time, time))
    IN  [i \in 1..Len(kept) |-> kept[i].slice]

get_collection(s, key, time, target) ==
    IF Len(target) # 0 \/ ~TraceOk(s, key)
    THEN PanicSlice
    ELSE [ok |-> TRUE, val |-> merge(SlicesUpTo(trace(s, key), time), target)]

\* SliceIterator::next from index on: the items it yields
RECURSIVE SliceIterator(_, _)
SliceIterator(slice, index) ==
    IF index < Len(slice)
    THEN <<At(slice, index)>> \o SliceIterator(slice, index + 1)
    ELSE <<>>

\* iterators::merge: the k-way merge of streams by value; among equal heads
\* the first stream goes first
RECURSIVE MergeIterator(_)
MergeIterator(streams) ==
    LET live == Retain(streams)
    IN  IF Len(live) = 0 THEN <<>>
        ELSE LET value == MinHead(live)
                 first == CHOOSE i \in 1..Len(live) :
                            /\ live[i][1][1] = value
                            /\ \A j \in 1..(i - 1) : live[j][1][1] # value
             IN  <<live[first][1]>>
                 \o MergeIterator([live EXCEPT ![first] = Tail(@)])

\* iterators::coalesce: each run of equal values collapsed into one item with
\* the summed weight, a zero total dropped
RECURSIVE CoalesceIterator(_)
CoalesceIterator(stream) ==
    IF Len(stream) = 0 THEN <<>>
    ELSE IF Len(stream) > 1 /\ stream[1][1] = stream[2][1]
    THEN CoalesceIterator(<<<<stream[1][1], stream[1][2] + stream[2][2]>>>>
                          \o SubSeq(stream, 3, Len(stream)))
    ELSE IF stream[1][2] # 0 THEN <<stream[1]>> \o CoalesceIterator(Tail(stream))
    ELSE CoalesceIterator(Tail(stream))

get_collection_iterator(s, key, time) ==
    IF ~TraceOk(s, key)
    THEN PanicSlice
    ELSE LET slices == SlicesUpTo(trace(s, key), time)
             streams == [i \in 1..Len(slices) |-> SliceIterator(slices[i], 0)]
         IN  [ok |-> TRUE, val |-> CoalesceIterator(MergeIterator(streams))]

Contains(vec, x) == \E i \in 1..Len(vec) : vec[i] = x

\* collection_trace::close_under_lub: add lub(a, b) of pairs already present
\* until no new element appears
RECURSIVE close_under_lub(_)
close_under_lub(result) ==
    LET missing == {lub \in {least_upper_bound(result[i], result[j]) :
                                i, j \in 1..Len(result)} : ~Contains(result, lub)}
    IN  IF missing = {} THEN result
        ELSE close_under_lub(Append(result, CHOOSE lub \in missing : TRUE))

\* the loop of interesting_times over the trace items from i on
RECURSIVE PushLubs(_, _, _, _)
PushLubs(items, i, index, result) ==
    IF i > Len(items) THEN result
    ELSE LET lub == least_upper_bound(items[i].time, index)
         IN  PushLubs(items, i + 1, index,
                      IF ~Contains(result, lub) THEN Append(result, lub)
                                                ELSE result)

interesting_times(s, key, index, result) ==
    IF ~TraceOk(s, key)
    THEN [ok |-> FALSE, val |-> result]
    ELSE [ok |-> TRUE,
          val |-> close_under_lub(PushLubs(trace(s, key), 1, index, result))]

\* --------------------------------------------------------------- coalesce
RECURSIVE SumWeights(_, _, _)
SumWeights(coll, i, v) ==
    IF i > Len(coll) THEN 0
    ELSE (IF coll[i][1] = v THEN coll[i][2] ELSE 0) + SumWeights(coll, i + 1, v)

RECURSIVE Ascending(_)
Ascending(S) ==
    IF S = {} THEN <<>>
    ELSE LET m == CHOOSE x \in S : \A y \in S : x <= y
         IN  <<m>> \o Ascending(S \ {m})

\* sort by value, sum the weights of equal values, drop zero weights
coalesce(coll) ==
    LET live == {v \in {coll[i][1] : i \in 1..Len(coll)} :
                    SumWeights(coll, 1, v) # 0}
        order == Ascending(live)
    IN  [i \in 1..Len(order) |-> <<order[i], SumWeights(coll, 1, order[i])>>]

\* ---------------------------------------------------------------- key map
\* Lookup::entry_or_insert: the stored Offset, or the default when absent
entry_or_insert(km, key, default) == IF km[key] = None THEN default ELSE km[key]

\* ---------------------------------------------------- install_differences
\* the link record as it would be if every key were taken as just inserted
NewLinkDetached(index, offset, prev_position, next_position) ==
    <<index, offset, None>>

\* the link record as it would be if the just-inserted test were left out
NewLinkUntested(index, offset, prev_position, next_position) ==
    <<index, offset, prev_position>>

\* the link record pushed for a key whose map entry, after entry_or_insert
\* with next_position as the default, is prev_position
NewLink(index, offset, prev_position, next_position) ==
    IF OffsetVal(prev_position) = OffsetVal(next_position)
    THEN <<index, offset, None>>
    ELSE <<index, offset, prev_position>>

RECURSIVE RunUpper(_, _, _)
RunUpper(ks, lower, upper) ==
    IF upper < Len(ks) /\ At(ks, lower) = At(ks, upper)
    THEN RunUpper(ks, lower, upper + 1)
    ELSE upper

\* the loop over the runs of keys: the links and the key map it leaves
RECURSIVE InstallRuns(_, _, _, _)
InstallRuns(ks, lower, lk, km) ==
    IF ~(lower < Len(ks)) THEN [links |-> lk, keys |-> km]
    ELSE LET upper == RunUpper(ks, lower, lower + 1)
             next_position == OffsetNew(Len(lk))
             prev_position == entry_or_insert(km, At(ks, lower), next_position)
         IN  InstallRuns(ks, upper,
                         Append(lk, NewLink(Len(times), lower,
                                            prev_position, next_position)),
                         [km EXCEPT ![At(ks, lower)] = next_position])

\* the time array as it would be if the entry were pushed unconditionally
PushTimeAlways(time, vals) == Append(times, <<time, vals>>)

\* the time array with (time, vals) ensured as the last entry
PushTime(time, vals) ==
    IF Len(times) = 0 \/ At(times, Len(times) - 1)[1] # time
    THEN Append(times, <<time, vals>>)
    ELSE times

install_differences(time, ks, vals) ==
    /\ ~panicked
    /\ LET r == InstallRuns(ks, 0, links, keys)
       IN  /\ links' = r.links
           /\ keys' = r.keys
    /\ times' = PushTime(time, vals)
    /\ call' = [op |-> "install", time |-> time, keys |-> ks, vals |-> vals]
    /\ ncalls' = ncalls + 1
    /\ UNCHANGED <<temp, panicked>>

\* --------------------------------------------------------- set_collection
Negate(coll) == [i \in 1..Len(coll) |-> <<coll[i][1], coll[i][2] * (-1)>>]

\* the scratch buffer as it would be if it were put back without clear()
ClearSkipped(vec) == vec

\* Vec::clear
Clear(vec) == SubSeq(vec, 1, 0)

\* the index as it would be if it were one short of the last time entry
IndexBeforeLast(tm) == Max(Len(tm) - 2, 0)

\* let index = self.times.len() - 1
LastIndex(tm) == Len(tm) - 1

set_collection(key, time, collection) ==
    /\ ~panicked
    /\ call' = [op |-> "set", time |-> time, keys |-> <<key>>,
                vals |-> collection]
    /\ ncalls' = ncalls + 1
    /\ LET coalesced == coalesce(collection)
           pushed == PushTime(time, <<>>)
           index == LastIndex(pushed)
           \* mem::replace(&mut self.temp, Vec::new())
           taken == temp
           got == get_collection([self EXCEPT !.times = pushed, !.temp = <<>>],
                                 key, At(pushed, Len(pushed) - 1)[1], taken)
       IN  IF ~got.ok
           THEN /\ times' = pushed
                /\ temp' = <<>>
                /\ panicked' = TRUE
                /\ UNCHANGED <<links, keys>>
           ELSE LET negated == Negate(got.val)
                    offset == Len(At(pushed, index)[2])
                    updates == merge(<<negated, coalesced>>, At(pushed, index)[2])
                    next_position == OffsetNew(Len(links))
                    prev_position == entry_or_insert(keys, key, next_position)
                IN  /\ times' = [pushed EXCEPT ![index + 1] = <<@[1], updates>>]
                    /\ IF Len(updates) > offset
                       THEN /\ links' = Append(links,
                                                NewLink(index, offset,
                                                        prev_position, next_position))
                            /\ keys' = [keys EXCEPT ![key] = next_position]
                       ELSE UNCHANGED <<links, keys>>
                    \* mem::replace(&mut self.temp, temp); self.temp.clear()
                    /\ temp' = Clear(negated)
                    /\ UNCHANGED panicked

\* ------------------------------------------------------ the specification
\* the vectors of weighted values of length n over values vs, weights ws
Batches(n, vs, ws) == [1..n -> vs \X ws]

\* runs are strictly sorted by value when equal keys are adjacent
RunsSorted(ks, vals) ==
    \A i \in 1..(Len(ks) - 1) : ks[i] = ks[i + 1] => vals[i][1] < vals[i + 1][1]

\* equal keys adjacent
Grouped(ks) ==
    \A i, j \in 1..Len(ks) :
        (i < j /\ ks[i] = ks[j]) => \A m \in i..j : ks[m] = ks[i]

\* what a caller may pass to install_differences: one value per key entry,
\* equal keys adjacent, each key's run strictly sorted, no zero weight
InstallInputs(n, vs, ws) ==
    {in \in [1..n -> Keys] \X Batches(n, vs, ws) :
        Grouped(in[1]) /\ RunsSorted(in[1], in[2])}

Init ==
    /\ links = <<>>
    /\ times = <<>>
    /\ keys = [k \in Keys |-> None]
    /\ temp = <<>>
    /\ panicked = FALSE
    /\ call = [op |-> "new", time |-> <<0, 0>>, keys |-> <<>>, vals |-> <<>>]
    /\ ncalls = 0

Install ==
    /\ ncalls < MaxCalls
    /\ \E time \in Times : \E n \in 0..MaxLen :
        \E in \in InstallInputs(n, Values, Weights) :
            install_differences(time, in[1], in[2])

SetCollection ==
    /\ ncalls < MaxCalls
    /\ \E key \in Keys : \E time \in Times : \E n \in 0..MaxLen :
        \E collection \in Batches(n, Values, Weights) :
            set_collection(key, time, collection)

Next == Install \/ SetCollection

Spec == Init /\ [][Next]_vars

\* the same program on longer call sequences over fewer inputs
DeepInstall ==
    /\ ncalls < MaxDeepCalls
    /\ \E time \in DeepTimes : \E n \in 0..MaxLen :
        \E in \in InstallInputs(n, DeepValues, DeepWeights) :
            install_differences(time, in[1], in[2])

DeepSetCollection ==
    /\ ncalls < MaxDeepCalls
    /\ \E key \in Keys : \E time \in DeepTimes : \E n \in 0..DeepSetLen :
        \E collection \in Batches(n, DeepValues, DeepWeights) :
            set_collection(key, time, collection)

DeepNext == DeepInstall \/ DeepSetCollection

DeepSpec == Init /\ [][DeepNext]_vars

\* The call sequences in which no install_differences call names the time of
\* the last time entry (the case in which the code pushes links but no time
\* entry); used to tell what a violation is owed to.
FreshTime(time) ==
    IF Len(times) = 0 THEN TRUE ELSE At(times, Len(times) - 1)[1] # time

FreshInstall ==
    /\ ncalls < MaxCalls
    /\ \E time \in Times : \E n \in 0..MaxLen :
        \E in \in InstallInputs(n, Values, Weights) :
            /\ FreshTime(time)
            /\ install_differences(time, in[1], in[2])

FreshNext == FreshInstall \/ SetCollection

FreshSpec == Init /\ [][FreshNext]_vars

DeepFreshInstall ==
    /\ ncalls < MaxDeepCalls
    /\ \E time \in DeepTimes : \E n \in 0..MaxLen :
        \E in \in InstallInputs(n, DeepValues, DeepWeights) :
            /\ FreshTime(time)
            /\ install_differences(time, in[1], in[2])

DeepFreshNext == DeepFreshInstall \/ DeepSetCollection

DeepFreshSpec == Init /\ [][DeepFreshNext]_vars

\* ----------------------------------------------------- auxiliary notions
RECURSIVE Concat(_)
Concat(slices) ==
    IF Len(slices) = 0 THEN <<>> ELSE Head(slices) \o Concat(Tail(slices))

\* the multiset sum of some batches: sorted by value, equal values summed,
\* zero weights dropped
MultisetSum(slices) == coalesce(Concat(slices))

\* strictly increasing values, no zero weight
Canonical(slice) ==
    /\ \A i \in 1..Len(slice) : slice[i][2] # 0
    /\ \A i \in 1..(Len(slice) - 1) : slice[i][1] < slice[i + 1][1]

\* the batches of key's chain with time <= time, as trace yields them
BatchesUpTo(s, key, time) == SlicesUpTo(trace(s, key), time)

\* the run [lower, upper) of the key entry at 0-based position lower of a call
RunOf(ks, vals, lower) == Slice(vals, lower, RunUpper(ks, lower, lower + 1))

\* the 0-based positions at which a run of keys starts
RunStarts(ks) ==
    {i \in 0..(Len(ks) - 1) : i = 0 \/ At(ks, i - 1) # At(ks, i)}

Returned == ~panicked

\* ------------------------------------------------------------------ C1
\* C1: in every reachable state, for every key K and time T,
\* get_collection(K, T, empty target) yields the multiset sum of exactly the
\* batches of K's chain whose time is <= T in the partial order.
C1_AccumulationLaw ==
    \A k \in Keys : \A t \in IndexTimes :
        LET got == get_collection(self, k, t, <<>>)
        IN  /\ got.ok
            /\ got.val = MultisetSum(BatchesUpTo(self, k, t))

\* ------------------------------------------------------------------ C2
\* C2: right after set_collection(K, T, C) returns, get_collection(K, T)
\* equals the coalesced form of C.
C2_SetCollectionFixpoint ==
    (call.op = "set" /\ Returned) =>
        get_collection(self, call.keys[1], call.time, <<>>)
            = [ok |-> TRUE, val |-> coalesce(call.vals)]

\* ------------------------------------------------------------------ C3
\* C3: after install_differences(time, keys, values), for every run
\* [lower, upper) of a key k the newest entry of trace(k) is
\* (time, values[lower..upper)), get_difference(k, time) is that run, and
\* get_collection(k, time) is the previous accumulation at time plus the run.
C3_InstallEffect ==
    [][call'.op = "install" =>
        \A lower \in RunStarts(call'.keys) :
            LET k == At(call'.keys, lower)
                run == RunOf(call'.keys, call'.vals, lower)
                before == get_collection(self, k, call'.time, <<>>)
                after == get_collection(self', k, call'.time, <<>>)
            IN  /\ Len(trace(self', k)) > 0
                /\ trace(self', k)[1]
                     = [ok |-> TRUE, time |-> call'.time, slice |-> run]
                /\ get_difference(self', k, call'.time)
                     = [ok |-> TRUE, val |-> run]
                /\ before.ok
                /\ after = [ok |-> TRUE,
                            val |-> MultisetSum(<<before.val, run>>)]]_vars

\* ------------------------------------------------------------------ C4
\* C4: when every install_differences call passes per-key runs strictly
\* sorted by value with non-zero weights, every slice returned by get_range
\* for a link position and by get_difference for a key and time has strictly
\* increasing values and only non-zero weights.
C4_BatchCanonicity ==
    /\ \A p \in 0..(Len(links) - 1) :
          get_range(self, p).ok => Canonical(get_range(self, p).val)
    /\ \A k \in Keys : \A t \in IndexTimes :
          get_difference(self, k, t).ok => Canonical(get_difference(self, k, t).val)

\* ------------------------------------------------------------------ C5
IsPrefix(u, v) == Len(u) <= Len(v) /\ \A i \in 1..Len(u) : v[i] = u[i]

\* C5: every call leaves every existing link record unchanged, leaves every
\* time entry but the last unchanged, and only appends to the value vector
\* of the last time entry; neither array ever gets shorter.
C5_FrozenHistory ==
    [][/\ IsPrefix(links, links')
       /\ Len(times') >= Len(times)
       /\ \A i \in 1..(Len(times) - 1) : times'[i] = times[i]
       /\ Len(times) > 0 =>
            /\ times'[Len(times)][1] = times[Len(times)][1]
            /\ IsPrefix(times[Len(times)][2], times'[Len(times)][2])]_vars

\* a set_collection appended values and a link to a last time entry that
\* already held values
C5_Witness ==
    /\ call.op = "set"
    /\ Returned
    /\ Len(links) >= 2
    /\ links[Len(links)][1] = Len(times) - 1
    /\ links[Len(links)][2] > 0
    /\ Len(times[Len(times)][2]) > links[Len(links)][2]

\* ------------------------------------------------------------------ C6
\* the link positions of a chain, from next0 on
RECURSIVE ChainFrom(_, _)
ChainFrom(lk, next0) ==
    IF next0 = None THEN <<>>
    ELSE <<OffsetVal(next0)>> \o ChainFrom(lk, At(lk, OffsetVal(next0))[3])

Chain(key) == ChainFrom(links, keys[key])

\* C6: for every key, following next from the key's head yields link records
\* whose time_index values are non-increasing.
C6_ChainMonotonicity ==
    \A k \in Keys : \A i \in 1..(Len(Chain(k)) - 1) :
        At(links, Chain(k)[i])[1] >= At(links, Chain(k)[i + 1])[1]

\* a chain of three links that both falls and stays level in time_index
C6_Witness ==
    \E k \in Keys :
        /\ Len(Chain(k)) >= 3
        /\ At(links, Chain(k)[1])[1] = At(links, Chain(k)[2])[1]
        /\ At(links, Chain(k)[2])[1] > At(links, Chain(k)[3])[1]

\* ------------------------------------------------------------------ C7
\* C7: for every key, no two entries yielded by trace(key) carry the same
\* time.
C7_OneEntryPerTime ==
    \A k \in Keys : \A i, j \in 1..Len(trace(self, k)) :
        (i < j /\ trace(self, k)[i].ok /\ trace(self, k)[j].ok)
            => trace(self, k)[i].time # trace(self, k)[j].time

\* the keys a call names
Named(c) == {c.keys[i] : i \in 1..Len(c.keys)}

\* C7 as amended: a call appends at most one link to the chain of each key it
\* names and none to any other chain, so a chain has at most as many entries
\* as calls named its key (two of them may carry the same time).
C7_OneLinkPerCall ==
    [][\A k \in Keys :
          \/ Chain(k)' = Chain(k)
          \/ /\ k \in Named(call')
             /\ Len(Chain(k)') = Len(Chain(k)) + 1
             /\ Tail(Chain(k)') = Chain(k)
             /\ Head(Chain(k)') >= Len(links)]_vars

\* a key's trace holds two entries for one time
C7_Witness ==
    \E k \in Keys :
        /\ Len(trace(self, k)) = 2
        /\ TraceOk(self, k)
        /\ trace(self, k)[1].time = trace(self, k)[2].time

\* ------------------------------------------------------------------ C8
\* the value vector of the time entry that is active after a call, as it was
\* before the call
ActiveBefore == IF Len(times') = Len(times) THEN times[Len(times)][2] ELSE <<>>

\* C8: set_collection(K, T, C) appends at most one link, and the values it
\* appends to the active time's vector are exactly coalesce(C) minus the
\* accumulation of K at T before the call; when the two are equal it appends
\* no values and no link and does not insert K into the key map, so a second
\* identical call right after the first changes neither links nor values.
C8_AppendsExactlyDelta ==
    [][(call'.op = "set" /\ Returned') =>
        LET k == call'.keys[1]
            before == get_collection(self, k, call'.time, <<>>)
            delta == MultisetSum(<<coalesce(call'.vals), Negate(before.val)>>)
        IN  /\ Len(links') <= Len(links) + 1
            /\ before.ok =>
                 /\ times'[Len(times')][2] = ActiveBefore \o delta
                 /\ coalesce(call'.vals) = before.val =>
                      /\ links' = links
                      /\ keys' = keys
                      /\ times'[Len(times')][2] = ActiveBefore
            /\ (call.op = "set" /\ call.keys = call'.keys
                /\ call.time = call'.time /\ call.vals = call'.vals) =>
                 /\ links' = links
                 /\ times' = times]_vars

\* ------------------------------------------------------------------ C9
\* what a caller may hold in result before the call
InitialResults == {<<>>, <<<<1, 0>>>>, <<<<0, 1>>, <<1, 0>>>>}

\* C9: interesting_times(key, index, result) ends with result containing
\* lub(t, index) for every time t of the key's chain, still containing what
\* it held before the call, and closed under least upper bounds.
C9_InterestingTimesClosure ==
    \A k \in Keys : \A index \in IndexTimes : \A result \in InitialResults :
        LET got == interesting_times(self, k, index, result)
        IN  /\ got.ok
            /\ \A p \in 1..Len(Chain(k)) :
                  Contains(got.val,
                           least_upper_bound(At(times, At(links, Chain(k)[p])[1])[1],
                                             index))
            /\ \A i \in 1..Len(result) : Contains(got.val, result[i])
            /\ \A i, j \in 1..Len(got.val) :
                  Contains(got.val, least_upper_bound(got.val[i], got.val[j]))

\* ------------------------------------------------------------------ C10
\* C10: for every key K and time T the items produced by
\* get_collection_iterator(K, T) equal, item for item and in order, what
\* get_collection(K, T) writes into an empty target.
C10_StreamingEquivalence ==
    \A k \in Keys : \A t \in IndexTimes :
        get_collection_iterator(self, k, t) = get_collection(self, k, t, <<>>)

\* ------------------------------------------------------------------ C11
\* merge called on its own: any number of slices up to MaxSlices, each
\* strictly sorted by value with non-zero weights, and a target that already
\* holds something
MaxSlices == 3

CanonicalSlices ==
    UNION {{b \in Batches(n, Values, Weights) : Canonical(b)} : n \in 0..MaxLen}

MergeTargets == Batches(0, Values, Weights) \cup Batches(1, Values, Weights)

MergeCall ==
    /\ call.op = "new"
    /\ \E n \in 0..MaxSlices : \E slices \in [1..n -> CanonicalSlices] :
        \E target \in MergeTargets :
            /\ call' = [op |-> "merge", time |-> <<0, 0>>, keys |-> <<>>,
                        vals |-> slices, target |-> target,
                        result |-> merge(slices, target)]
            /\ UNCHANGED <<links, times, keys, temp, panicked, ncalls>>

MergeNext == MergeCall

MergeSpec == Init /\ [][MergeNext]_vars

\* what a merge call appended to its target
Appended(c) == SubSeq(c.result, Len(c.target) + 1, Len(c.result))

\* C11: for any number of canonical input slices (zero, one, empty ones
\* included) merge leaves the existing contents of target unchanged and
\* appends the multiset sum of the inputs: one entry per value whose summed
\* weight is non-zero, in strictly increasing order of value, none for a
\* value whose weights cancel.
C11_MergeCorrectness ==
    call.op = "merge" =>
        /\ IsPrefix(call.target, call.result)
        /\ Appended(call) = MultisetSum(call.vals)
        /\ Canonical(Appended(call))
        /\ \A v \in Values :
              SumWeights(Concat(call.vals), 1, v) = 0
                  => \A i \in 1..Len(Appended(call)) : Appended(call)[i][1] # v

\* three slices, one of them empty, onto a non-empty target: one value
\* cancels and another is summed over two slices
C11_Witness ==
    /\ call.op = "merge"
    /\ Len(call.vals) = 3
    /\ \E i \in 1..3 : Len(call.vals[i]) = 0
    /\ Len(call.target) > 0
    /\ \E v \in Values :
          /\ \E i \in 1..Len(Concat(call.vals)) : Concat(call.vals)[i][1] = v
          /\ SumWeights(Concat(call.vals), 1, v) = 0
    /\ \E i \in 1..Len(Appended(call)) : Appended(call)[i][2] = 2

\* ------------------------------------------------------------------ C12
\* C12: in every reachable state the entries of the time array carry
\* pairwise distinct logical times.
C12_DistinctTimes ==
    \A i, j \in 1..Len(times) : i # j => times[i][1] # times[j][1]

\* ------------------------------------------------------------------ C13
\* C13: the scratch buffer is empty in every state between calls, so the
\* target set_collection hands to get_collection (the scratch buffer it takes
\* at entry) is empty and the empty-target assertion holds.
C13_ScratchEmpty == Len(temp) = 0

\* a set_collection returned after filling the scratch buffer with the key's
\* accumulation and merging its negation into the active vector
C13_Witness ==
    /\ call.op = "set"
    /\ Returned
    /\ Len(temp) = 0
    /\ Len(times) > 0
    /\ \E i \in 1..Len(times[Len(times)][2]) : times[Len(times)][2][i][2] < 0

\* ------------------------------------------------------------------ C14
\* every next pointer refers to a strictly smaller link position
NextBelow(lk) ==
    \A p \in 0..(Len(lk) - 1) :
        At(lk, p)[3] # None => OffsetVal(At(lk, p)[3]) < p

\* every link position lies on the chain of exactly one key, and a key's map
\* entry is the largest position of its chain (chains: the chain of each key)
ChainsPartition(chains, lk) ==
    LET owned == UNION {LET c == chains[k]
                        IN  {<<k, c[i]>> : i \in 1..Len(c)} : k \in Keys}
    IN  /\ \A p \in 0..(Len(lk) - 1) :
              Cardinality({x \in owned : x[2] = p}) = 1
        /\ \A k \in Keys :
              LET c == chains[k]
              IN  \A i \in 1..(Len(c) - 1) : c[i] > c[i + 1]

\* the link position a call appends for key k: the number of links before the
\* call plus the number of runs of the call that precede k's run
AppendedFor(c, k, before) ==
    before + Cardinality({i \in RunStarts(c.keys) :
                             \E j \in RunStarts(c.keys) :
                                 i < j /\ At(c.keys, j) = k})

RangeOf(p) ==
    [lower |-> At(links, p)[2],
     upper |-> At(links, p)[2] + Len(get_range(self, p).val)]

\* C15: the links sharing one time_index occupy consecutive positions of the
\* link array with non-decreasing value_lower, so for every link position the
\* upper bound of the range rule is >= its value_lower and the slices of two
\* different links never overlap (links whose time entry exists; the others
\* are the subject of C16).
C15_ContiguousRanges ==
    /\ \A p, q, r \in 0..(Len(links) - 1) :
          (p < q /\ q < r /\ At(links, p)[1] = At(links, r)[1])
              => At(links, q)[1] = At(links, p)[1]
    /\ \A p, r \in 0..(Len(links) - 1) :
          (p < r /\ At(links, p)[1] = At(links, r)[1])
              => At(links, p)[2] <= At(links, r)[2]
    /\ \A p \in 0..(Len(links) - 1) :
          At(links, p)[1] < Len(times) => get_range(self, p).ok
    /\ \A p, r \in 0..(Len(links) - 1) :
          (p < r /\ At(links, p)[1] = At(links, r)[1]
                 /\ At(links, p)[1] < Len(times))
              => RangeOf(p).upper <= RangeOf(r).lower

\* ------------------------------------------------------------------ C16
\* C16: in every reachable state (calls at the last time entry's time
\* included) every link record has time_index < len(times) and
\* value_lower <= len(times[time_index].values), so get_range, trace,
\* get_difference and get_collection never index outside the time array or a
\* value vector.
C16_LinksInBounds ==
    /\ \A p \in 0..(Len(links) - 1) :
          /\ At(links, p)[1] < Len(times)
          /\ At(links, p)[2] <= Len(At(times, At(links, p)[1])[2])
          /\ get_range(self, p).ok
    /\ \A k \in Keys :
          /\ TraceOk(self, k)
          /\ \A t \in IndexTimes :
                /\ get_difference(self, k, t).ok
                /\ get_collection(self, k, t, <<>>).ok

\* ------------------------------------------------------------------ C17
\* the time array is empty or its last entry's time differs from time
Inactive(tm, time) ==
    IF Len(tm) = 0 THEN TRUE ELSE tm[Len(tm)][1] # time

IsSuffix(u, v) ==
    Len(u) <= Len(v) /\ SubSeq(v, Len(v) - Len(u) + 1, Len(v)) = u

\* C18: for every mutating call and every key, trace(key) after the call is
\* trace(key) before it, preceded by new entries only if the call names the
\* key; the slice get_range(p) of an existing link position is the same
\* before and after, and get_collection of a key the call does not name is
\* unchanged at every time. (Reads that succeeded before the call.)
C18_ReadsStable ==
    [][/\ \A p \in 0..(Len(links) - 1) :
             get_range(self, p).ok => get_range(self', p) = get_range(self, p)
       /\ \A k \in Keys :
             TraceOk(self, k) =>
                /\ IsSuffix(trace(self, k), trace(self', k))
                /\ k \notin Named(call') =>
                      /\ trace(self', k) = trace(self, k)
                      /\ \A t \in IndexTimes :
                            get_collection(self', k, t, <<>>)
                                = get_collection(self, k, t, <<>>)]_vars

\* ------------------------------------------------------------------ C19
\* install_differences given, for one key, a run of one value whose two
\* weights cancel
ZeroSumInstall ==
    /\ ncalls < MaxCalls
    /\ \E time \in Times : \E k \in Keys : \E v \in Values : \E w \in Weights :
          install_differences(time, <<k, k>>, <<<<v, w>>, <<v, w * (-1)>>>>)

ZeroSumNext == Install \/ SetCollection \/ ZeroSumInstall

ZeroSumSpec == Init /\ [][ZeroSumNext]_vars

\* the run of the call that starts at lower is not empty and each of its
\* values has weights summing to zero
ZeroSumRun(c, lower) ==
    /\ Len(RunOf(c.keys, c.vals, lower)) > 0
    /\ Len(coalesce(RunOf(c.keys, c.vals, lower))) = 0

\* C19: when install_differences is given, for some key, a run whose weights
\* sum to zero for each value, get_collection for that key is at every time
\* the same as before the call, whether or not the key already has batches.
C19_ZeroSumRun ==
    [][call'.op = "install" =>
        \A lower \in RunStarts(call'.keys) :
            ZeroSumRun(call', lower) =>
                \A t \in IndexTimes :
                    get_collection(self', At(call'.keys, lower), t, <<>>)
                        = get_collection(self, At(call'.keys, lower), t, <<>>)]_vars

====
